---- MODULE Spec2Model ----
(***************************************************************************)
(* Gmail OAuth credential lifecycle and multi-account resolution of        *)
(* GmailService (server/app/main/services/email.py).                       *)
(*                                                                         *)
(* The Firestore collection users/{uid}/gmailAccounts/{account_id} is the  *)
(* variable store: a function from document paths <<uid, account_id>> to   *)
(* documents, a document being a record whose DOMAIN is the set of fields   *)
(* it holds.  The OAuth provider is a nondeterministic input of each       *)
(* handler (does the exchange succeed, does it hand out a refresh token,   *)
(* does it accept a refresh) together with the serial of the tokens it has *)
(* issued.  Every handler is an operator from the store and its inputs to  *)
(* what it returns and the store it leaves, and one action applies it.     *)
(* For the races between requests, calls holds the calls in progress, each *)
(* at the store access it makes next (SpecRace).                           *)
(***************************************************************************)
EXTENDS Integers, Sequences, FiniteSets, TLC

VARIABLES store, now, issued, calls

vars == <<store, now, issued, calls>>

-----------------------------------------------------------------------------
(* Bounds of the model. *)

MaxOwners == 2
MaxAccounts == 2
MaxDocs == 2
MaxTime == 1
MaxTokens == 2
TokenLifetime == 1
MaxEmails == 1
MaxProcs == 2

-----------------------------------------------------------------------------
(* Values. *)

\* Python's None and a present value, for optional values.
None == <<>>
Some(v) == <<v>>

\* Identifiers are strings; a string is the sequence of its ':'-separated
\* segments, so that "u:a" is the concatenation of "u" and "a".
EmptyUid == <<0>>
Owners == {<<i>> : i \in 1..MaxOwners}
Uids == Owners \cup {EmptyUid}
AccountIds == {<<i>> : i \in 1..MaxAccounts}

\* Profile e-mail addresses the provider may report.
Emails == {[local |-> <<i>>, domain |-> "y.com"] : i \in 1..MaxEmails}

\* Lexicographic order on strings, the order of document names.
RECURSIVE SeqLeq(_, _)
SeqLeq(s, t) ==
    IF s = <<>> THEN TRUE
    ELSE IF t = <<>> THEN FALSE
    ELSE IF Head(s) < Head(t) THEN TRUE
    ELSE IF Head(s) > Head(t) THEN FALSE
    ELSE SeqLeq(Tail(s), Tail(t))

\* Order of two document paths in a collection-group stream: by owner, then
\* by account id.
PathLeq(p, q) ==
    IF p[1] = q[1] THEN SeqLeq(p[2], q[2]) ELSE SeqLeq(p[1], q[1])

-----------------------------------------------------------------------------
(* The document store. *)

EmptyDoc == [f \in {} |-> None]

\* doc_ref.get().to_dict() or {}
DocData(st, ref) == IF ref \in DOMAIN st THEN st[ref] ELSE EmptyDoc

\* Mutant: the write replaces the document, the stored fields are dropped.
MergeFieldsReplace(fields, old) == fields

\* Field-wise merge: the fields written replace the stored ones, the others
\* are kept.
MergeFields(fields, old) ==
    [f \in DOMAIN fields \cup DOMAIN old |->
        IF f \in DOMAIN fields THEN fields[f] ELSE old[f]]

\* doc_ref.set(fields, merge=True): creates the document when it is missing.
DocSetMerge(st, ref, fields) ==
    [r \in DOMAIN st \cup {ref} |->
        IF r = ref THEN MergeFields(fields, DocData(st, ref)) ELSE st[r]]

\* Mutant: the update replaces the document by the fields written.
DocUpdateReplace(st, ref, fields) ==
    [r \in DOMAIN st |-> IF r = ref THEN fields ELSE st[r]]

\* doc_ref.update(fields) on an existing document.
DocUpdate(st, ref, fields) ==
    [r \in DOMAIN st |-> IF r = ref THEN MergeFields(fields, st[r]) ELSE st[r]]

\* doc_ref.delete()
DocDelete(st, ref) == [r \in DOMAIN st \ {ref} |-> st[r]]

\* The documents of one owner's gmailAccounts collection.
OwnerDocs(st, uid) == {r \in DOMAIN st : r[1] = uid}

\* The first of a non-empty set of paths in stream order.
FirstPath(paths) == CHOOSE r \in paths : \A q \in paths : PathLeq(r, q)

-----------------------------------------------------------------------------
(* Conversions of an expiry (None or a time) to the stored field. *)

\* creds.expiry.isoformat() if getattr(creds, "expiry", None) else None
IsoOrNull(expiry) ==
    IF expiry = None THEN [fmt |-> "null", t |-> None]
    ELSE [fmt |-> "iso", t |-> expiry]

\* str(creds.expiry): the text "None" for a missing expiry.
StrOf(expiry) == [fmt |-> "str", t |-> expiry]

-----------------------------------------------------------------------------
(* Account resolution. *)

\* Mutant: the fallback hands back the caller's uid as the owner.
_doc_ref_for_account_caller_as_owner(st, uid, account_id) ==
    IF uid # EmptyUid /\ <<uid, account_id>> \in DOMAIN st
    THEN [ref |-> Some(<<uid, account_id>>), owner |-> Some(uid)]
    ELSE LET matches == {r \in DOMAIN st : r[2] = account_id}
         IN  IF matches # {}
             THEN [ref |-> Some(FirstPath(matches)), owner |-> Some(uid)]
             ELSE [ref |-> None, owner |-> None]

\* Mutant: the global scan alone, the caller's own namespace is not tried.
_doc_ref_for_account_scan_only(st, uid, account_id) ==
    LET matches == {r \in DOMAIN st : r[2] = account_id}
    IN  IF matches # {}
        THEN [ref |-> Some(FirstPath(matches)),
              owner |-> Some(FirstPath(matches)[1])]
        ELSE [ref |-> None, owner |-> None]

\* Mutant: the scan keeps going and hands back the last match of the stream.
_doc_ref_for_account_last_match(st, uid, account_id) ==
    IF uid # EmptyUid /\ <<uid, account_id>> \in DOMAIN st
    THEN [ref |-> Some(<<uid, account_id>>), owner |-> Some(uid)]
    ELSE LET matches == {r \in DOMAIN st : r[2] = account_id}
             last == CHOOSE r \in matches : \A q \in matches : PathLeq(q, r)
         IN  IF matches # {}
             THEN [ref |-> Some(last), owner |-> Some(last[1])]
             ELSE [ref |-> None, owner |-> None]

\* The caller's own namespace first (when the service has a uid), then the
\* first document of the collection-group stream whose id is account_id; the
\* owner is the parent of the document found.
_doc_ref_for_account(st, uid, account_id) ==
    IF uid # EmptyUid /\ <<uid, account_id>> \in DOMAIN st
    THEN [ref |-> Some(<<uid, account_id>>), owner |-> Some(uid)]
    ELSE LET matches == {r \in DOMAIN st : r[2] = account_id}
         IN  IF matches # {}
             THEN [ref |-> Some(FirstPath(matches)),
                   owner |-> Some(FirstPath(matches)[1])]
             ELSE [ref |-> None, owner |-> None]

\* Mutant: the owner's existing documents are not seen.
_get_existing_account_id_none(st, uid) == None

\* ref.limit(1).stream(): the owner's first document, if any.
_get_existing_account_id(st, uid) ==
    IF OwnerDocs(st, uid) = {} THEN None
    ELSE Some(FirstPath(OwnerDocs(st, uid))[2])

-----------------------------------------------------------------------------
(* Credentials objects and the provider. *)

\* An access token the provider issued: its serial and the time it stops
\* being accepted.
AccessToken(serial, t) == [id |-> serial, exp |-> t + TokenLifetime]

\* Credentials(token=data.get("access_token"), refresh_token=..., ...): no
\* expiry argument is passed, so the object's expiry is None.
NewCredentials(data) ==
    [token |-> IF "access_token" \in DOMAIN data
               THEN Some(data.access_token) ELSE None,
     refresh_token |-> Some(data.refresh_token),
     expiry |-> None]

\* creds.expired: False without an expiry, else expiry reached.
CredsExpired(creds, t) ==
    IF creds.expiry = None THEN FALSE ELSE creds.expiry[1] <= t

\* Mutant: credentials without an expiry count as not valid.
CredsValidNeedsExpiry(creds, t) ==
    creds.token # None /\ creds.expiry # None /\ ~CredsExpired(creds, t)

\* creds.valid: a token is held and it is not expired.
CredsValid(creds, t) == creds.token # None /\ ~CredsExpired(creds, t)

\* creds.refresh(Request()) accepted by the provider: a new access token and
\* its expiry.
Refreshed(creds, serial, t) ==
    [creds EXCEPT !.token = Some(AccessToken(serial, t)),
                  !.expiry = Some(t + TokenLifetime)]

\* flow.credentials after flow.fetch_token(code=code): the provider may omit
\* the refresh token (re-consent) and the lifetime of the access token.
Exchanged(serial, t, hasRefresh, hasExpiry) ==
    [token |-> Some(AccessToken(serial, t)),
     refresh_token |-> IF hasRefresh THEN Some(serial) ELSE None,
     expiry |-> IF hasExpiry THEN Some(t + TokenLifetime) ELSE None]

-----------------------------------------------------------------------------
(* What a handler gives back: the store and the provider's token count it  *)
(* leaves, its result, whether the result is a raised exception, the       *)
(* account id and credentials returned, the document resolved with its     *)
(* owner, the refresh and exchange calls made to the provider, and the     *)
(* state string of the authorization URL built.                            *)

Outcome(st, count) ==
    [store |-> st, issued |-> count, result |-> "none", raised |-> FALSE,
     out |-> None, creds |-> None, ref |-> None, owner |-> None,
     refreshCalls |-> 0, exchangeCalls |-> 0, state |-> None]

\* The documents a handler created, changed or deleted.
Written(st, o) ==
    {r \in DOMAIN st \cup DOMAIN o.store :
        \/ r \notin DOMAIN st
        \/ r \notin DOMAIN o.store
        \/ st[r] # o.store[r]}

-----------------------------------------------------------------------------
(* The operations of GmailService. *)

\* doc_ref.set({"createdAt": SERVER_TIMESTAMP}, merge=True)
_ensure_account_doc(st, uid, account_id, t) ==
    DocSetMerge(st, <<uid, account_id>>, [createdAt |-> t])

\* Mutant: the state carries the account id alone.
StateOfAccountOnly(uid, account_id) == account_id

\* The state string get_auth_url hands to the provider.
StateOf(uid, account_id) == uid \o account_id

\* With an account_id the placeholder write is made for it; without one the
\* owner's first account is reused, or a fresh uuid4 is drawn and its
\* placeholder written.  The state is f"{self.uid}:{account_id}".
get_auth_url(st, count, t, uid, arg, fresh) ==
    LET existing_id == _get_existing_account_id(st, uid)
        account_id == IF arg # None THEN arg[1]
                      ELSE IF existing_id # None THEN existing_id[1]
                      ELSE fresh
        writes == arg # None \/ existing_id = None
    IN  [Outcome(st, count) EXCEPT
            !.store = IF writes
                      THEN _ensure_account_doc(st, uid, account_id, t)
                      ELSE st,
            !.result = "ok",
            !.out = Some(account_id),
            !.ref = Some(<<uid, account_id>>),
            !.owner = Some(uid),
            !.state = Some(StateOf(uid, account_id))]

\* Mutant: the refresh_token is read with data.get and its absence is not
\* checked.
LiveCredentialUnchecked(o, ref, t, accept) ==
    LET data == DocData(o.store, ref)
        creds == [token |-> IF "access_token" \in DOMAIN data
                            THEN Some(data.access_token) ELSE None,
                  refresh_token |-> IF "refresh_token" \in DOMAIN data
                                    THEN Some(data.refresh_token) ELSE None,
                  expiry |-> None]
        fresh == Refreshed(creds, o.issued + 1, t)
    IN  IF ~CredsValid(creds, t) \/ CredsExpired(creds, t)
        THEN IF accept
             THEN [o EXCEPT
                     !.store = DocUpdate(o.store, ref,
                                 [access_token |-> fresh.token[1],
                                  expiry |-> IsoOrNull(fresh.expiry)]),
                     !.issued = o.issued + 1,
                     !.result = "ok",
                     !.creds = Some(fresh),
                     !.refreshCalls = 1]
             ELSE [o EXCEPT !.result = "refresh error",
                            !.raised = TRUE,
                            !.refreshCalls = 1]
        ELSE [o EXCEPT !.result = "ok", !.creds = Some(creds)]

\* The body get_service and get_credentials share once the document is
\* resolved: read it, build the credentials, refresh and persist when they
\* are not valid.  accept: does the provider accept the refresh token.
LiveCredential(o, ref, t, accept) ==
    LET data == DocData(o.store, ref)
        creds == NewCredentials(data)
        fresh == Refreshed(creds, o.issued + 1, t)
    IN  IF "refresh_token" \notin DOMAIN data
        THEN [o EXCEPT !.result = "not connected"]
        ELSE IF ~CredsValid(creds, t) \/ CredsExpired(creds, t)
        THEN IF accept
             THEN [o EXCEPT
                     !.store = DocUpdate(o.store, ref,
                                 [access_token |-> fresh.token[1],
                                  expiry |-> IsoOrNull(fresh.expiry)]),
                     !.issued = o.issued + 1,
                     !.result = "ok",
                     !.creds = Some(fresh),
                     !.refreshCalls = 1]
             ELSE [o EXCEPT !.result = "refresh error",
                            !.raised = TRUE,
                            !.refreshCalls = 1]
        ELSE [o EXCEPT !.result = "ok", !.creds = Some(creds)]

\* get_service(account_id): raises ValueError when no document is resolved
\* or the document has no refresh_token; a rejected refresh raises too.
get_service(st, count, t, uid, account_id, accept) ==
    LET found == _doc_ref_for_account(st, uid, account_id)
        o == [Outcome(st, count) EXCEPT !.ref = found.ref,
                                        !.owner = found.owner]
        live == LiveCredential(o, found.ref[1], t, accept)
    IN  IF found.ref = None
        THEN [o EXCEPT !.result = "not connected", !.raised = TRUE]
        ELSE [live EXCEPT !.raised = live.result # "ok"]

\* Mutant: a missing or unconnected record raises, as in get_service.
get_credentials_raising(st, count, t, uid, arg, accept) ==
    IF arg # None
    THEN get_service(st, count, t, uid, arg[1], accept)
    ELSE [Outcome(st, count) EXCEPT !.result = "not connected",
                                    !.raised = TRUE]

\* get_credentials(account_id=None): as get_service, but resolves the owner's
\* first account when no account_id is given, and returns None instead of
\* raising when nothing usable is found.
get_credentials(st, count, t, uid, arg, accept) ==
    LET found == IF arg # None
                 THEN _doc_ref_for_account(st, uid, arg[1])
                 ELSE IF uid = EmptyUid \/ OwnerDocs(st, uid) = {}
                 THEN [ref |-> None, owner |-> None]
                 ELSE [ref |-> Some(FirstPath(OwnerDocs(st, uid))),
                       owner |-> Some(uid)]
        o == [Outcome(st, count) EXCEPT !.ref = found.ref,
                                        !.owner = found.owner]
    IN  IF found.ref = None
        THEN [o EXCEPT !.result = "not connected"]
        ELSE LiveCredential(o, found.ref[1], t, accept)

\* Mutant: the owner check is left out.
disconnect_account_unchecked(st, count, uid, account_id, admin_mode) ==
    LET found == _doc_ref_for_account(st, uid, account_id)
        o == [Outcome(st, count) EXCEPT !.ref = found.ref,
                                        !.owner = found.owner]
    IN  IF found.ref = None
        THEN [o EXCEPT !.result = "not found"]
        ELSE [o EXCEPT !.store = DocDelete(st, found.ref[1]),
                       !.result = "ok"]

\* Mutant: admin_mode is ignored, the caller must own the record.
disconnect_account_owner_only(st, count, uid, account_id, admin_mode) ==
    LET found == _doc_ref_for_account(st, uid, account_id)
        o == [Outcome(st, count) EXCEPT !.ref = found.ref,
                                        !.owner = found.owner]
    IN  IF found.ref = None
        THEN [o EXCEPT !.result = "not found"]
        ELSE IF found.owner[1] # uid
        THEN [o EXCEPT !.result = "permission denied"]
        ELSE [o EXCEPT !.store = DocDelete(st, found.ref[1]),
                       !.result = "ok"]

\* disconnect_account(account_id, admin_mode=False)
disconnect_account(st, count, uid, account_id, admin_mode) ==
    LET found == _doc_ref_for_account(st, uid, account_id)
        o == [Outcome(st, count) EXCEPT !.ref = found.ref,
                                        !.owner = found.owner]
    IN  IF found.ref = None
        THEN [o EXCEPT !.result = "not found"]
        ELSE IF ~admin_mode /\ found.owner[1] # uid
        THEN [o EXCEPT !.result = "permission denied"]
        ELSE [o EXCEPT !.store = DocDelete(st, found.ref[1]),
                       !.result = "ok"]

\* What the provider answers to a callback: whether the code exchange
\* succeeds, whether the token response holds a refresh token and a
\* lifetime, whether the profile request succeeds and the emailAddress of the
\* profile (None when the profile has none).
FailedExchange ==
    [exchanged |-> FALSE, hasRefresh |-> FALSE, hasExpiry |-> FALSE,
     profiled |-> FALSE, email |-> None]
Responses ==
    {FailedExchange} \cup
    {[FailedExchange EXCEPT !.exchanged = TRUE, !.hasRefresh = r,
                            !.hasExpiry = e] : r, e \in BOOLEAN} \cup
    {[exchanged |-> TRUE, hasRefresh |-> r, hasExpiry |-> e,
      profiled |-> TRUE, email |-> m] :
        r, e \in BOOLEAN, m \in {Some(x) : x \in Emails} \cup {None}}

\* Mutant: the name is left empty.
NameOfEmpty(email_address) == <<>>

\* email_address.split("@")[0] if email_address else ""
NameOf(email_address) ==
    IF email_address = None THEN <<>> ELSE email_address[1].local

\* creds.refresh_token or existing.get("refresh_token")
RefreshTokenOr(creds, existing) ==
    IF creds.refresh_token # None THEN creds.refresh_token
    ELSE IF "refresh_token" \in DOMAIN existing
    THEN Some(existing.refresh_token)
    ELSE None

\* Mutant: the tokens are written before the profile is fetched, so a failed
\* profile request leaves them in the record.
handle_callback_write_first(st, count, t, uid, state, resp) ==
    LET owner == <<Head(state)>>
        account_id == Tail(state)
        ref == <<owner, account_id>>
        creds == Exchanged(count + 1, t, resp.hasRefresh, resp.hasExpiry)
        o == Outcome(st, count)
        called == [o EXCEPT !.exchangeCalls = 1]
        issuedOne == [called EXCEPT !.issued = count + 1]
        tokens == DocSetMerge(st, ref,
                      [refresh_token |-> creds.refresh_token[1],
                       access_token |-> creds.token[1],
                       expiry |-> StrOf(creds.expiry)])
    IN  IF Len(state) < 2
        THEN [o EXCEPT !.result = "invalid state"]
        ELSE IF ~resp.exchanged
        THEN [called EXCEPT !.result = "error"]
        ELSE IF creds.refresh_token = None
        THEN [issuedOne EXCEPT !.result = "no refresh_token"]
        ELSE IF ~resp.profiled
        THEN [issuedOne EXCEPT !.store = tokens, !.result = "error"]
        ELSE [issuedOne EXCEPT
                !.store = DocSetMerge(tokens, ref,
                            [emailAddress |-> resp.email,
                             name |-> NameOf(resp.email)]),
                !.result = "ok",
                !.out = Some(account_id),
                !.ref = Some(ref),
                !.owner = Some(owner)]

\* handle_callback(state, code): every exception is caught and returned as
\* (None, error).  The owner and the account id are state.split(":", 1).
handle_callback(st, count, t, uid, state, resp) ==
    LET owner == <<Head(state)>>
        account_id == Tail(state)
        ref == <<owner, account_id>>
        creds == Exchanged(count + 1, t, resp.hasRefresh, resp.hasExpiry)
        refresh_token == RefreshTokenOr(creds, DocData(st, ref))
        o == Outcome(st, count)
        called == [o EXCEPT !.exchangeCalls = 1]
        issuedOne == [called EXCEPT !.issued = count + 1]
    IN  IF Len(state) < 2
        THEN [o EXCEPT !.result = "invalid state"]
        ELSE IF ~resp.exchanged
        THEN [called EXCEPT !.result = "error"]
        ELSE IF creds.refresh_token = None
        THEN [issuedOne EXCEPT !.result = "no refresh_token"]
        ELSE IF refresh_token = None
        THEN [issuedOne EXCEPT !.result = "no refresh_token"]
        ELSE IF ~resp.profiled
        THEN [issuedOne EXCEPT !.result = "error"]
        ELSE [issuedOne EXCEPT
                !.store = DocSetMerge(st, ref,
                            [refresh_token |-> refresh_token[1],
                             access_token |-> creds.token[1],
                             expiry |-> StrOf(creds.expiry),
                             emailAddress |-> resp.email,
                             name |-> NameOf(resp.email)]),
                !.result = "ok",
                !.out = Some(account_id),
                !.ref = Some(ref),
                !.owner = Some(owner)]

\* save_refresh_token(code, state): nothing is caught; uid, account_id =
\* state.split(":") raises unless the state has exactly one ':'.  The stored
\* refresh token stands in for one the exchange omits.
save_refresh_token(st, count, t, uid, state, resp) ==
    LET owner == <<Head(state)>>
        account_id == Tail(state)
        ref == <<owner, account_id>>
        creds == Exchanged(count + 1, t, resp.hasRefresh, resp.hasExpiry)
        refresh_token == RefreshTokenOr(creds, DocData(st, ref))
        o == Outcome(st, count)
        called == [o EXCEPT !.exchangeCalls = 1]
        issuedOne == [called EXCEPT !.issued = count + 1]
    IN  IF Len(state) # 2
        THEN [o EXCEPT !.result = "invalid state", !.raised = TRUE]
        ELSE IF ~resp.exchanged
        THEN [called EXCEPT !.result = "error", !.raised = TRUE]
        ELSE IF refresh_token = None
        THEN [issuedOne EXCEPT !.result = "no refresh_token"]
        ELSE IF ~resp.profiled
        THEN [issuedOne EXCEPT !.result = "error", !.raised = TRUE]
        ELSE [issuedOne EXCEPT
                !.store = DocSetMerge(st, ref,
                            [refresh_token |-> refresh_token[1],
                             access_token |-> creds.token[1],
                             expiry |-> IsoOrNull(creds.expiry),
                             emailAddress |-> resp.email,
                             name |-> NameOf(resp.email)]),
                !.result = "ok",
                !.ref = Some(ref),
                !.owner = Some(owner)]

-----------------------------------------------------------------------------
(* Inputs. *)

\* An optional account_id argument.
AccountArgs == {None} \cup {Some(a) : a \in AccountIds}

\* The state strings a callback may carry: "uid:account_id", a string
\* without ':', and a string with two ':'.
StateStrings ==
    {StateOf(u, a) : u \in Owners, a \in AccountIds} \cup Owners
    \cup {StateOf(u, a) \o a : u \in Owners, a \in AccountIds}

-----------------------------------------------------------------------------
(* The specification: the store is empty at first, time passes, and each   *)
(* call of a handler leaves the store and the token count of its outcome.  *)

\* The requests being served, and a request slot with no call in it.
Procs == 1..MaxProcs
Idle == [op |-> "none", pc |-> "idle"]
NoCalls == [p \in Procs |-> Idle]

Init ==
    /\ store = [r \in {} |-> EmptyDoc]
    /\ now = 0
    /\ issued = 0
    /\ calls = NoCalls

\* The model's bounds on the documents stored and the tokens issued.
Bounded(o) ==
    /\ Cardinality(DOMAIN o.store) <= MaxDocs
    /\ o.issued <= MaxTokens

\* Wall-clock time passes.
Tick ==
    /\ now < MaxTime
    /\ now' = now + 1
    /\ UNCHANGED <<store, issued, calls>>

\* uuid4() draws an id no document has.
FreshIds == {a \in AccountIds : \A r \in DOMAIN store : r[2] # a}

GetAuthUrl ==
    \E uid \in Owners, arg \in AccountArgs, fresh \in AccountIds :
        LET o == get_auth_url(store, issued, now, uid, arg, fresh)
        IN  /\ arg = None /\ _get_existing_account_id(store, uid) = None
                  => fresh \in FreshIds
            /\ Bounded(o)
            /\ store' = o.store
            /\ issued' = o.issued
            /\ UNCHANGED <<now, calls>>

GetService ==
    \E uid \in Uids, a \in AccountIds, accept \in BOOLEAN :
        LET o == get_service(store, issued, now, uid, a, accept)
        IN  /\ Bounded(o)
            /\ store' = o.store
            /\ issued' = o.issued
            /\ UNCHANGED <<now, calls>>

GetCredentials ==
    \E uid \in Uids, arg \in AccountArgs, accept \in BOOLEAN :
        LET o == get_credentials(store, issued, now, uid, arg, accept)
        IN  /\ Bounded(o)
            /\ store' = o.store
            /\ issued' = o.issued
            /\ UNCHANGED <<now, calls>>

DisconnectAccount ==
    \E uid \in Uids, a \in AccountIds, admin_mode \in BOOLEAN :
        LET o == disconnect_account(store, issued, uid, a, admin_mode)
        IN  /\ Bounded(o)
            /\ store' = o.store
            /\ issued' = o.issued
            /\ UNCHANGED <<now, calls>>

HandleCallback ==
    \E uid \in Owners, state \in StateStrings, resp \in Responses :
        LET o == handle_callback(store, issued, now, uid, state, resp)
        IN  /\ Bounded(o)
            /\ store' = o.store
            /\ issued' = o.issued
            /\ UNCHANGED <<now, calls>>

Next ==
    \/ Tick
    \/ GetAuthUrl
    \/ GetService
    \/ GetCredentials
    \/ DisconnectAccount
    \/ HandleCallback

Spec == Init /\ [][Next]_vars

\* A connected record that holds no access_token, which get_service and
\* get_credentials read with data.get("access_token"): the credentials
\* built from it are not valid and the handlers refresh.  No write of
\* GmailService leaves such a record; it is a document of the database
\* that the handlers accept.
TokenlessDoc ==
    [createdAt |-> 0, refresh_token |-> 0, emailAddress |-> None,
     name |-> <<>>]

\* The stores of at most MaxDocs such records.
TokenlessStores ==
    {[r \in paths |-> TokenlessDoc] :
        paths \in {ps \in SUBSET (Owners \X AccountIds) :
                     Cardinality(ps) <= MaxDocs}}

\* The handlers started on a database that holds such records.
InitStore ==
    /\ store \in TokenlessStores
    /\ now = 0
    /\ issued = 0
    /\ calls = NoCalls

SpecStore == InitStore /\ [][Next]_vars

-----------------------------------------------------------------------------
(* Requests served at the same time.  Each request is served independently *)
(* and the store is the only thing the requests share: a call in progress  *)
(* is at its next access to the store or to the provider, and the accesses  *)
(* of different calls interleave.                                          *)

\* A call that has just been made.
StartCall(op, uid, arg, admin) ==
    [op |-> op, pc |-> "read", uid |-> uid, arg |-> arg, admin |-> admin,
     ref |-> None, creds |-> None, out |-> None, at |-> None,
     result |-> "none", raised |-> FALSE]

\* The calls that requests make at the same time: get_service(account_id),
\* get_auth_url() and disconnect_account(account_id, admin_mode).
RaceCalls ==
    {StartCall("get_service", u, a, FALSE) : u \in Uids, a \in AccountIds}
    \cup {StartCall("get_auth_url", u, <<>>, FALSE) : u \in Owners}
    \cup {StartCall("disconnect_account", u, a, m) :
            u \in Owners, a \in AccountIds, m \in BOOLEAN}

\* The call has returned or raised.
Finish(c, result, raised) ==
    [c EXCEPT !.pc = "done", !.result = result, !.raised = raised]

\* get_service, lines 199-213: the document is resolved and read and the
\* credentials are built; they are returned when they are valid.
ServiceReadStep(st, t, c) ==
    LET found == _doc_ref_for_account(st, c.uid, c.arg)
        data == DocData(st, found.ref[1])
        creds == NewCredentials(data)
    IN  IF found.ref = None THEN Finish(c, "not connected", TRUE)
        ELSE IF "refresh_token" \notin DOMAIN data
        THEN Finish([c EXCEPT !.ref = found.ref], "not connected", TRUE)
        ELSE IF ~CredsValid(creds, t) \/ CredsExpired(creds, t)
        THEN [c EXCEPT !.pc = "refresh", !.ref = found.ref,
                       !.creds = Some(creds)]
        ELSE Finish([c EXCEPT !.ref = found.ref, !.creds = Some(creds)],
                    "ok", FALSE)

\* get_service, line 214: creds.refresh(Request()).
ServiceRefreshStep(count, t, c, accept) ==
    IF accept
    THEN [c EXCEPT !.pc = "update",
                   !.creds = Some(Refreshed(c.creds[1], count + 1, t))]
    ELSE Finish([c EXCEPT !.creds = None], "refresh error", TRUE)

\* Mutant: the access_token alone is written, the expiry is left as stored.
PersistRefreshTokenOnly(st, ref, creds) ==
    IF ref \in DOMAIN st
    THEN [store |-> DocUpdate(st, ref, [access_token |-> creds.token[1]]),
          raised |-> FALSE]
    ELSE [store |-> st, raised |-> TRUE]

\* Mutant: the token is written with set(..., merge=True), which creates the
\* document when it is missing.
PersistRefreshUpsert(st, ref, creds) ==
    [store |-> DocSetMerge(st, ref, [access_token |-> creds.token[1],
                                     expiry |-> IsoOrNull(creds.expiry)]),
     raised |-> FALSE]

\* get_service, lines 215-218: doc_ref.update writes the two fields in one
\* write; on a document that no longer exists it raises NotFound and writes
\* nothing.
PersistRefresh(st, ref, creds) ==
    IF ref \in DOMAIN st
    THEN [store |-> DocUpdate(st, ref, [access_token |-> creds.token[1],
                                        expiry |-> IsoOrNull(creds.expiry)]),
          raised |-> FALSE]
    ELSE [store |-> st, raised |-> TRUE]

\* get_auth_url, lines 112-116: the owner's first account is looked up; when
\* there is none a uuid4 is drawn.
AuthUrlCheckStep(st, c, fresh) ==
    LET existing_id == _get_existing_account_id(st, c.uid)
    IN  IF existing_id # None
        THEN Finish([c EXCEPT !.out = existing_id], "ok", FALSE)
        ELSE [c EXCEPT !.pc = "ensure", !.out = Some(fresh)]

\* disconnect_account, lines 296-303: the document is resolved and the owner
\* checked.
DisconnectResolveStep(st, c) ==
    LET found == _doc_ref_for_account(st, c.uid, c.arg)
    IN  IF found.ref = None THEN Finish(c, "not found", FALSE)
        ELSE IF ~c.admin /\ found.owner[1] # c.uid
        THEN Finish([c EXCEPT !.ref = found.ref], "permission denied", FALSE)
        ELSE [c EXCEPT !.pc = "delete", !.ref = found.ref]

\* The database holds records without access_token, or none, and no request
\* is in progress.
InitRace ==
    /\ store \in TokenlessStores
    /\ now = 0
    /\ issued = 0
    /\ calls = NoCalls

\* A request arrives and its call is made.
BeginCall(p) ==
    /\ calls[p] = Idle
    /\ \E c \in RaceCalls : calls' = [calls EXCEPT ![p] = c]
    /\ UNCHANGED <<store, now, issued>>

ServiceRead(p) ==
    /\ calls[p].op = "get_service" /\ calls[p].pc = "read"
    /\ calls' = [calls EXCEPT ![p] = ServiceReadStep(store, now, calls[p])]
    /\ UNCHANGED <<store, now, issued>>

ServiceRefresh(p) ==
    /\ calls[p].op = "get_service" /\ calls[p].pc = "refresh"
    /\ \E accept \in BOOLEAN :
        /\ accept => issued < MaxTokens
        /\ calls' = [calls EXCEPT
                        ![p] = ServiceRefreshStep(issued, now, calls[p],
                                                  accept)]
        /\ issued' = IF accept THEN issued + 1 ELSE issued
    /\ UNCHANGED <<store, now>>

ServiceUpdate(p) ==
    /\ calls[p].op = "get_service" /\ calls[p].pc = "update"
    /\ LET w == PersistRefresh(store, calls[p].ref[1], calls[p].creds[1])
       IN  /\ store' = w.store
           /\ calls' = [calls EXCEPT
                           ![p] = IF w.raised
                                  THEN Finish([calls[p] EXCEPT
                                                  !.creds = None],
                                              "not found", TRUE)
                                  ELSE Finish([calls[p] EXCEPT !.at = Some(now)],
                                              "ok", FALSE)]
    /\ UNCHANGED <<now, issued>>

\* Mutant: the id drawn may be one that another call has drawn.
FreshForAny(p) == FreshIds

\* uuid4() draws an id that no document and no other call has.
FreshFor(p) ==
    {a \in FreshIds : \A q \in Procs \ {p} :
        calls[q].op = "get_auth_url" => calls[q].out # Some(a)}

AuthUrlCheck(p) ==
    /\ calls[p].op = "get_auth_url" /\ calls[p].pc = "read"
    /\ \E fresh \in AccountIds :
        /\ _get_existing_account_id(store, calls[p].uid) = None
              => fresh \in FreshFor(p)
        /\ calls' = [calls EXCEPT
                        ![p] = AuthUrlCheckStep(store, calls[p], fresh)]
    /\ UNCHANGED <<store, now, issued>>

AuthUrlEnsure(p) ==
    /\ calls[p].op = "get_auth_url" /\ calls[p].pc = "ensure"
    /\ LET st == _ensure_account_doc(store, calls[p].uid, calls[p].out[1],
                                     now)
       IN  /\ Cardinality(DOMAIN st) <= MaxDocs
           /\ store' = st
    /\ calls' = [calls EXCEPT
                    ![p] = Finish([calls[p] EXCEPT
                                      !.ref = Some(<<calls[p].uid,
                                                     calls[p].out[1]>>),
                                      !.at = Some(now)],
                                  "ok", FALSE)]
    /\ UNCHANGED <<now, issued>>

DisconnectResolve(p) ==
    /\ calls[p].op = "disconnect_account" /\ calls[p].pc = "read"
    /\ calls' = [calls EXCEPT ![p] = DisconnectResolveStep(store, calls[p])]
    /\ UNCHANGED <<store, now, issued>>

\* doc_ref.delete(), line 306.
DisconnectDelete(p) ==
    /\ calls[p].op = "disconnect_account" /\ calls[p].pc = "delete"
    /\ store' = DocDelete(store, calls[p].ref[1])
    /\ calls' = [calls EXCEPT ![p] = Finish(calls[p], "ok", FALSE)]
    /\ UNCHANGED <<now, issued>>

NextRace ==
    \/ Tick
    \/ \E p \in Procs : BeginCall(p)
    \/ \E p \in Procs : ServiceRead(p)
    \/ \E p \in Procs : ServiceRefresh(p)
    \/ \E p \in Procs : ServiceUpdate(p)
    \/ \E p \in Procs : AuthUrlCheck(p)
    \/ \E p \in Procs : AuthUrlEnsure(p)
    \/ \E p \in Procs : DisconnectResolve(p)
    \/ \E p \in Procs : DisconnectDelete(p)

SpecRace == InitRace /\ [][NextRace]_vars

-----------------------------------------------------------------------------
(* The HTTP layer: require_permission and the routes of apis/email.py.     *)

\* The permission keys of a user that matter to the e-mail routes.
PermissionKeys == {"email_access", "admin_flag"}

\* The keys a route may be decorated with.
RouteKeys == PermissionKeys \cup {"self_profile_access"}

\* User.set_permissions: admin_flag grants every key.
set_permissions(permissions) ==
    IF "admin_flag" \in permissions THEN PermissionKeys ELSE permissions

\* An Authorization header: does Firebase verify the token, and the user_id
\* of its payload (None when the payload has none).
Headers == [verifies : BOOLEAN, user_id : {None} \cup {Some(u) : u \in Owners}]

\* A request: its Authorization header (None when missing), the permissions
\* stored for the user it names, the account_id header (None when missing),
\* and whether the provider accepts a refresh made while it is served.
Requests ==
    [auth : {None} \cup {Some(h) : h \in Headers},
     permissions : SUBSET PermissionKeys,
     account_id : AccountArgs,
     accept : BOOLEAN]

\* verify_token_and_get_doc: the decoded token, or `raise {...}` of a dict,
\* which is a TypeError.
verify_token_and_get_doc(h) ==
    IF h.verifies THEN [raised |-> FALSE, payload |-> h.user_id]
    ELSE [raised |-> TRUE, payload |-> None]

\* require_permission(permission_key): the answer it gives by itself, or
\* the invocation of the handler.  An exception is raised again and leaves
\* the route as an internal server error.
require_permission(permission_key, req) ==
    LET decoded == verify_token_and_get_doc(req.auth[1])
        answer(status) ==
            [status |-> status, invoked |-> FALSE, raised |-> FALSE]
    IN  IF req.auth = None THEN answer("401")
        ELSE IF decoded.raised
        THEN [status |-> "500", invoked |-> FALSE, raised |-> TRUE]
        ELSE IF decoded.payload = None THEN answer("401")
        ELSE IF /\ permission_key # "self_profile_access"
                /\ permission_key \notin set_permissions(req.permissions)
        THEN answer("403")
        ELSE [status |-> "handler", invoked |-> TRUE, raised |-> FALSE]

\* What a route answers: the status, whether its handler ran, whether an
\* exception left it, whether messages of an account were returned or a
\* mail was sent from one, and the store and token count it leaves.
Answer(st, count, status) ==
    [status |-> status, invoked |-> TRUE, raised |-> FALSE,
     content |-> FALSE, store |-> st, issued |-> count]

\* @require_permission(permission_key) on a handler: handled is what the
\* handler answers when it is invoked.
Wrapped(permission_key, st, count, req, handled) ==
    LET d == require_permission(permission_key, req)
    IN  IF d.invoked THEN handled
        ELSE [Answer(st, count, d.status) EXCEPT !.invoked = FALSE,
                                                !.raised = d.raised]

\* The body GmailMessages.get and GmailMessagesFull.get share: the service
\* of GmailService("") for the account_id header lists the messages; a
\* ValueError is answered 400 and any other exception 500.
MessagesHandler(st, count, t, req) ==
    LET o == get_service(st, count, t, EmptyUid, req.account_id[1],
                         req.accept)
    IN  IF req.account_id = None THEN Answer(st, count, "400")
        ELSE IF o.result = "ok"
        THEN [Answer(o.store, o.issued, "200") EXCEPT !.content = TRUE]
        ELSE IF o.result = "not connected"
        THEN Answer(o.store, o.issued, "400")
        ELSE Answer(o.store, o.issued, "500")

\* GmailMessages.get
GmailMessages_get(st, count, t, req) ==
    Wrapped("email_access", st, count, req,
            MessagesHandler(st, count, t, req))

\* GmailMessagesFull.get: the decorator is commented out.
GmailMessagesFull_get(st, count, t, req) == MessagesHandler(st, count, t, req)

\* GmailSend.post: the mail is sent with the credentials of the first
\* account of the token's user.
GmailSend_post(st, count, t, req) ==
    LET o == get_credentials(st, count, t, req.auth[1].user_id[1], None,
                             req.accept)
        handled ==
            IF o.raised THEN Answer(o.store, o.issued, "500")
            ELSE IF o.creds = None THEN Answer(o.store, o.issued, "400")
            ELSE [Answer(o.store, o.issued, "200") EXCEPT !.content = TRUE]
    IN  Wrapped("email_access", st, count, req, handled)

-----------------------------------------------------------------------------
(* Vocabulary of the properties. *)

\* A record is connected when it holds a refresh_token.
Connected(doc) == "refresh_token" \in DOMAIN doc

\* The record holds an access_token.
HasToken(doc) == "access_token" \in DOMAIN doc

\* The record holds no expiry time: no expiry field, a null one, or the text
\* of a missing expiry.
NoExpiry(doc) == "expiry" \notin DOMAIN doc \/ doc.expiry.t = None

\* The stored expiry is a time that has passed at t.
ExpiryPassed(doc, t) == ~NoExpiry(doc) /\ doc.expiry.t[1] <= t

\* The provider still accepts the access token at t.
TokenLive(token, t) == token.exp > t

\* The calls of getLiveCredential that can be made: get_service(account_id)
\* and get_credentials(account_id), by any service, with the provider
\* accepting the refresh token or not.
LiveCalls == [uid : Uids, account_id : AccountIds, accept : BOOLEAN]

\* The document a getLiveCredential call resolves, the record it holds and
\* the outcomes of the two handlers on it.
Resolved(c) == _doc_ref_for_account(store, c.uid, c.account_id)
Record(c) == store[Resolved(c).ref[1]]
Service(c) == get_service(store, issued, now, c.uid, c.account_id, c.accept)
Credentials(c) ==
    get_credentials(store, issued, now, c.uid, Some(c.account_id), c.accept)

\* The call resolves a record, and the record is connected.
OnRecord(c) == Resolved(c).ref # None
OnConnected(c) == OnRecord(c) /\ Connected(Record(c))

\* The outcome returns a credential whose access token is still accepted.
ReturnsLive(o) ==
    /\ o.creds # None
    /\ o.creds[1].token # None
    /\ TokenLive(o.creds[1].token[1], now)

-----------------------------------------------------------------------------
(* C1..C5: getLiveCredential. *)

\* C1: for every connected record whose refresh token the provider accepts,
\* get_service and get_credentials return a credential that has not expired
\* at return time, whatever access_token and expiry the record held.
C1_ReturnedCredentialNotExpired ==
    \A c \in LiveCalls :
        OnConnected(c) /\ c.accept
            => ReturnsLive(Service(c)) /\ ReturnsLive(Credentials(c))

\* C2: a record without refresh_token is never usable: get_service raises
\* not-connected, get_credentials returns no credential, neither calls the
\* provider's refresh and neither writes to the store.
C2_PlaceholderNotUsable ==
    \A c \in LiveCalls :
        OnRecord(c) /\ ~Connected(Record(c))
            => /\ Service(c).result = "not connected"
               /\ Service(c).raised
               /\ Service(c).creds = None
               /\ Service(c).refreshCalls = 0
               /\ Service(c).store = store
               /\ Credentials(c).result = "not connected"
               /\ ~Credentials(c).raised
               /\ Credentials(c).creds = None
               /\ Credentials(c).refreshCalls = 0
               /\ Credentials(c).store = store

\* A placeholder exists and a call on it is refused.
C2_Witness ==
    \E c \in LiveCalls :
        /\ OnRecord(c) /\ ~Connected(Record(c))
        /\ "createdAt" \in DOMAIN Record(c)
        /\ Service(c).result = "not connected"
        /\ Credentials(c).creds = None

\* The outcome made exactly one refresh call and, when the provider accepted
\* it, stored an access token other than old and returned it.
RefreshedOnce(o, old) ==
    /\ o.refreshCalls = 1
    /\ o.result = "ok"
         => /\ o.ref[1] \in DOMAIN o.store
            /\ HasToken(o.store[o.ref[1]])
            /\ o.store[o.ref[1]].access_token # old
            /\ o.creds[1].token = Some(o.store[o.ref[1]].access_token)

\* C3: when a connected record holds an access_token whose stored expiry has
\* passed, one get_service / get_credentials call makes exactly one provider
\* refresh call and writes the new access_token to the record.
C3_ExpiredTokenRefreshedOnce ==
    \A c \in LiveCalls :
        OnConnected(c) /\ HasToken(Record(c)) /\ ExpiryPassed(Record(c), now)
            => /\ RefreshedOnce(Service(c), Record(c).access_token)
               /\ RefreshedOnce(Credentials(c), Record(c).access_token)

\* C4: when a connected record holds an access_token but no expiry, the token
\* is treated as expired and refreshed before returning.
C4_MissingExpiryRefreshed ==
    \A c \in LiveCalls :
        OnConnected(c) /\ HasToken(Record(c)) /\ NoExpiry(Record(c))
            => /\ RefreshedOnce(Service(c), Record(c).access_token)
               /\ RefreshedOnce(Credentials(c), Record(c).access_token)

\* The record of call c holds a token whose stored expiry lies after t.
NotExpiredAt(c, t) ==
    /\ OnConnected(c) /\ HasToken(Record(c))
    /\ ~NoExpiry(Record(c)) /\ ~ExpiryPassed(Record(c), t)

\* The outcome made no refresh call, left the store as st and returned the
\* access token that st holds for the resolved record.
ReturnsStored(o, st) ==
    /\ o.refreshCalls = 0
    /\ o.store = st
    /\ o.result = "ok"
    /\ o.creds[1].token = Some(st[o.ref[1]].access_token)

\* C5: when the record's access_token is present and not expired, two
\* successive calls make no provider refresh call, leave the record
\* unchanged, and both return the token stored in the record.
C5_IdempotentOnValidToken ==
    \A c \in LiveCalls, t \in now..MaxTime :
        NotExpiredAt(c, t)
            => LET first == Service(c)
                   second == get_service(first.store, first.issued, t, c.uid,
                                         c.account_id, c.accept)
                   firstC == Credentials(c)
                   secondC == get_credentials(firstC.store, firstC.issued, t,
                                  c.uid, Some(c.account_id), c.accept)
               IN  /\ ReturnsStored(first, store)
                   /\ ReturnsStored(second, store)
                   /\ ReturnsStored(firstC, store)
                   /\ ReturnsStored(secondC, store)

\* A record with an unexpired token exists and a call on it succeeds.
C5_Witness ==
    \E c \in LiveCalls :
        /\ NotExpiredAt(c, now)
        /\ Service(c).result = "ok"
        /\ Service(c).creds[1].token = Some(Record(c).access_token)

-----------------------------------------------------------------------------
(* C6..C8: disconnect and ownership. *)

\* The disconnect_account calls that can be made.
DisconnectCalls == [uid : Uids, account_id : AccountIds, admin : BOOLEAN]
Disconnect(c) ==
    disconnect_account(store, issued, c.uid, c.account_id, c.admin)

\* C6: disconnect_account without admin_mode by a caller whose uid differs
\* from the owner of the record returns permission-denied and leaves every
\* record unchanged; no non-admin disconnect deletes a record owned by
\* someone other than the caller, also when the account_id exists under
\* several owners.
C6_NonOwnerDisconnectDenied ==
    \A c \in DisconnectCalls :
        ~c.admin
            => /\ \A w \in Owners \ {c.uid} :
                    /\ <<w, c.account_id>> \in DOMAIN store
                    /\ <<c.uid, c.account_id>> \notin DOMAIN store
                    => /\ Disconnect(c).result = "permission denied"
                       /\ Disconnect(c).store = store
               /\ \A r \in Written(store, Disconnect(c)) : r[1] = c.uid

\* The account_id exists under two owners: a non-admin caller who holds
\* neither record is denied and the store is unchanged, and an owner's
\* disconnect deletes that owner's record only.
C6_Witness ==
    \E c \in DisconnectCalls, d \in DisconnectCalls :
        /\ ~c.admin /\ ~d.admin /\ c.account_id = d.account_id
        /\ Cardinality(OwnerDocs(store, c.uid)) = 0
        /\ Cardinality({w \in Owners :
                           <<w, c.account_id>> \in DOMAIN store}) > 1
        /\ Disconnect(c).result = "permission denied"
        /\ Disconnect(c).store = store
        /\ Disconnect(d).result = "ok"
        /\ Written(store, Disconnect(d)) = {<<d.uid, d.account_id>>}

\* The call is made by the owner of the record it resolves, or in admin mode.
ByOwnerOrAdmin(c) ==
    /\ Disconnect(c).ref # None
    /\ c.admin \/ Disconnect(c).owner = Some(c.uid)

\* The outcome deleted exactly the record it resolved, and a lookup of the
\* account_id under the owner of that record finds nothing.
DeletedExactly(o, account_id) ==
    /\ o.result = "ok"
    /\ o.ref[1] \in DOMAIN store
    /\ o.store = DocDelete(store, o.ref[1])
    /\ DOMAIN o.store = DOMAIN store \ {o.ref[1]}
    /\ \A r \in DOMAIN o.store : o.store[r] = store[r]
    /\ <<o.owner[1], account_id>> \notin DOMAIN o.store

\* get_service for account_id fails as not connected in store st, whoever
\* calls it.
NotConnectedIn(st, account_id) ==
    \A uid \in Uids, accept \in BOOLEAN :
        LET o == get_service(st, issued, now, uid, account_id, accept)
        IN  o.result = "not connected" /\ o.raised

\* C7 as stated: disconnect_account by the record's owner, or by any caller
\* in admin mode, returns success and deletes exactly that record, so that a
\* lookup of the account_id under its owner finds nothing and get_service on
\* the account_id fails as not connected.
C7_DisconnectThenNotConnected ==
    \A c \in DisconnectCalls :
        ByOwnerOrAdmin(c)
            => /\ DeletedExactly(Disconnect(c), c.account_id)
               /\ NotConnectedIn(Disconnect(c).store, c.account_id)

\* C7 amended: the same, get_service on the account_id failing as not
\* connected when no other owner holds a record with that account_id.
C7_DisconnectDeletesRecord ==
    \A c \in DisconnectCalls :
        ByOwnerOrAdmin(c)
            => /\ DeletedExactly(Disconnect(c), c.account_id)
               /\ (\A r \in DOMAIN Disconnect(c).store : r[2] # c.account_id)
                    => NotConnectedIn(Disconnect(c).store, c.account_id)

\* An admin who is not the owner disconnects a connected record, the only one
\* with its account_id.
C7_Witness ==
    \E c \in DisconnectCalls :
        /\ c.admin /\ ByOwnerOrAdmin(c)
        /\ Disconnect(c).owner # Some(c.uid)
        /\ Connected(store[Disconnect(c).ref[1]])
        /\ Disconnect(c).result = "ok"
        /\ \A r \in DOMAIN Disconnect(c).store : r[2] # c.account_id

\* The outcomes of every call a service of uid can make on the present
\* store, admin-mode disconnects excepted.
NonAdminOutcomes(uid) ==
    {get_auth_url(store, issued, now, uid, arg, fresh) :
        arg \in AccountArgs, fresh \in AccountIds}
    \cup {get_service(store, issued, now, uid, a, accept) :
        a \in AccountIds, accept \in BOOLEAN}
    \cup {get_credentials(store, issued, now, uid, arg, accept) :
        arg \in AccountArgs, accept \in BOOLEAN}
    \cup {disconnect_account(store, issued, uid, a, FALSE) :
        a \in AccountIds}
    \cup {handle_callback(store, issued, now, uid, state, resp) :
        state \in StateStrings, resp \in Responses}

\* C8: every operation that writes to or deletes an account record first
\* checks that the calling service's uid is the record's owner (admin mode
\* excepted): no call changes or deletes a record of another owner.
C8_WritesOnlyOwnRecords ==
    \A uid \in Uids :
        \A o \in NonAdminOutcomes(uid) :
            \A r \in Written(store, o) \cap DOMAIN store : r[1] = uid

-----------------------------------------------------------------------------
(* C9, C10: _doc_ref_for_account. *)

\* The _doc_ref_for_account calls that can be made.
ResolveCalls == [uid : Uids, account_id : AccountIds]
Found(c) == _doc_ref_for_account(store, c.uid, c.account_id)

\* The owners other than the caller who hold a record with the account_id.
OtherHolders(c) ==
    {w \in Owners \ {c.uid} : <<w, c.account_id>> \in DOMAIN store}

\* C9: called by a service whose uid has no record with that account_id while
\* another owner has one, _doc_ref_for_account returns that other owner's
\* record together with that owner's id, not the caller's uid.
C9_FallbackReturnsTrueOwner ==
    \A c \in ResolveCalls :
        <<c.uid, c.account_id>> \notin DOMAIN store /\ OtherHolders(c) # {}
            => /\ Found(c).ref # None
               /\ Found(c).ref[1] \in DOMAIN store
               /\ Found(c).ref[1][2] = c.account_id
               /\ Found(c).ref[1][1] \in OtherHolders(c)
               /\ Found(c).owner = Some(Found(c).ref[1][1])

\* An owner without the account resolves another owner's record.
C9_Witness ==
    \E c \in ResolveCalls :
        /\ c.uid \in Owners
        /\ <<c.uid, c.account_id>> \notin DOMAIN store
        /\ OtherHolders(c) # {}
        /\ Found(c).owner # Some(c.uid)
        /\ Found(c).owner # None

\* C10: the caller's own namespace is tried first and the global scan only
\* when it misses: when the account_id exists under the caller (and under
\* another owner), the caller's own record is returned with owner = caller,
\* whatever the scan order.
C10_OwnNamespaceFirst ==
    \A c \in ResolveCalls :
        <<c.uid, c.account_id>> \in DOMAIN store
            => /\ Found(c).ref = Some(<<c.uid, c.account_id>>)
               /\ Found(c).owner = Some(c.uid)

\* The caller holds the account and so does an owner the scan meets first.
C10_Witness ==
    \E c \in ResolveCalls : \E w \in OtherHolders(c) :
        /\ <<c.uid, c.account_id>> \in DOMAIN store
        /\ PathLeq(<<w, c.account_id>>, <<c.uid, c.account_id>>)
        /\ Found(c).owner = Some(c.uid)

-----------------------------------------------------------------------------
(* C11: the global scan. *)

\* The records with the account_id of call c, whoever owns them.
Matches(c) == {r \in DOMAIN store : r[2] = c.account_id}

\* The call does not find the account under its own uid and scans.
Scans(c) == c.uid = EmptyUid \/ <<c.uid, c.account_id>> \notin DOMAIN store

\* C11: the global scan returns the first record in scan order whose id is
\* account_id, with the owner of that record, also when several owners hold
\* the account_id; every scan of the same store for the same account_id gives
\* the same (record, owner) pair; with no match it returns not-found.
C11_ScanReturnsFirstMatch ==
    \A c \in ResolveCalls :
        Scans(c)
            => /\ Matches(c) = {} => Found(c) = [ref |-> None, owner |-> None]
               /\ Matches(c) # {}
                    => /\ Found(c).ref # None
                       /\ Found(c).ref[1] \in Matches(c)
                       /\ \A q \in Matches(c) : PathLeq(Found(c).ref[1], q)
                       /\ Found(c).owner = Some(Found(c).ref[1][1])
               /\ \A d \in ResolveCalls :
                    Scans(d) /\ d.account_id = c.account_id
                        => Found(d) = Found(c)

\* Two owners hold the account_id and a scan returns the record of the first.
C11_Witness ==
    \E c \in ResolveCalls :
        /\ Scans(c)
        /\ Cardinality(Matches(c)) > 1
        /\ Found(c).ref # None
        /\ \E q \in Matches(c) : q # Found(c).ref[1]
                                    /\ PathLeq(Found(c).ref[1], q)

-----------------------------------------------------------------------------
(* C12..C18: get_auth_url and handle_callback. *)

\* The states "owner:account_id" and the document each names.
PairStates == {StateOf(u, a) : u \in Owners, a \in AccountIds}
RefOf(state) == <<<<Head(state)>>, Tail(state)>>

\* The provider's answers with which handle_callback can succeed.
Successes == {resp \in Responses : resp.exchanged /\ resp.profiled}

\* handle_callback called at time t on store st by a service of uid.
Callback(st, count, t, state, resp) ==
    handle_callback(st, count, t, CHOOSE u \in Owners : TRUE, state, resp)

\* Document doc holds the five fields of a callback that exchanged the code
\* at time t for the tokens of the given serial.
HoldsCallbackValues(doc, serial, t, resp) ==
    /\ {"refresh_token", "access_token", "expiry", "emailAddress", "name"}
          \subseteq DOMAIN doc
    /\ doc.refresh_token = serial
    /\ doc.access_token = AccessToken(serial, t)
    /\ doc.expiry.t = IF resp.hasExpiry THEN Some(t + TokenLifetime) ELSE None
    /\ doc.emailAddress = resp.email
    /\ doc.name = NameOf(resp.email)

\* The createdAt field of doc is what it is in old: absent from both, or the
\* same value.
SameCreatedAt(doc, old) ==
    /\ "createdAt" \in DOMAIN doc <=> "createdAt" \in DOMAIN old
    /\ "createdAt" \in DOMAIN old => doc.createdAt = old.createdAt

\* C12: two successful handle_callback calls for the same (owner, account_id)
\* leave createdAt at the value it had before the first call, while
\* refresh_token, access_token, expiry, emailAddress and name hold the values
\* of the second call.
C12_SecondCallbackKeepsCreatedAt ==
    \A state \in PairStates, r1 \in Successes, r2 \in Successes,
       t \in now..MaxTime :
        LET first == Callback(store, issued, now, state, r1)
            second == Callback(first.store, first.issued, t, state, r2)
        IN  first.result = "ok" /\ second.result = "ok"
                => /\ RefOf(state) \in DOMAIN second.store
                   /\ SameCreatedAt(second.store[RefOf(state)],
                                    DocData(store, RefOf(state)))
                   /\ HoldsCallbackValues(second.store[RefOf(state)],
                                          first.issued + 1, t, r2)
                   /\ second.store[RefOf(state)].refresh_token
                        # first.store[RefOf(state)].refresh_token

\* A record with createdAt was connected by a first callback, and a second
\* callback with another profile succeeds on it.
C12_Witness ==
    \E state \in PairStates, r2 \in Successes :
        LET ref == RefOf(state)
            second == Callback(store, issued, now, state, r2)
        IN  /\ ref \in DOMAIN store
            /\ Connected(store[ref])
            /\ "createdAt" \in DOMAIN store[ref]
            /\ second.result = "ok"
            /\ second.store[ref].createdAt = store[ref].createdAt
            /\ second.store[ref].emailAddress # store[ref].emailAddress
            /\ second.store[ref].access_token # store[ref].access_token

\* The get_auth_url calls that can be made: a uuid4 that is drawn is an id
\* no document has.
AuthUrlCalls ==
    {c \in [uid : Owners, arg : AccountArgs, fresh : AccountIds] :
        c.arg = None /\ _get_existing_account_id(store, c.uid) = None
            => c.fresh \in FreshIds}
AuthUrl(c) == get_auth_url(store, issued, now, c.uid, c.arg, c.fresh)

\* C13: createdAt is set when the placeholder is first created and never
\* overwritten: get_auth_url called again for a record that exists, also with
\* that record's account_id passed explicitly, leaves its createdAt at the
\* original value.
C13_CreatedAtNeverOverwritten ==
    \A c \in AuthUrlCalls :
        \A r \in DOMAIN store :
            "createdAt" \in DOMAIN store[r]
                => /\ r \in DOMAIN AuthUrl(c).store
                   /\ "createdAt" \in DOMAIN AuthUrl(c).store[r]
                   /\ AuthUrl(c).store[r].createdAt = store[r].createdAt

\* C14: get_auth_url with no account_id for an owner with no account returns
\* a freshly generated account_id, creates exactly one record under that
\* owner, with createdAt set and no refresh_token, and builds the URL with
\* the state "<owner_id>:<account_id>".
C14_FirstAuthUrlCreatesPlaceholder ==
    \A c \in AuthUrlCalls :
        c.arg = None /\ OwnerDocs(store, c.uid) = {}
            => LET o == AuthUrl(c)
                   ref == <<c.uid, o.out[1]>>
               IN  /\ o.result = "ok"
                   /\ o.out # None
                   /\ \A r \in DOMAIN store : r[2] # o.out[1]
                   /\ Written(store, o) = {ref}
                   /\ OwnerDocs(o.store, c.uid) = {ref}
                   /\ DOMAIN o.store[ref] = {"createdAt"}
                   /\ o.store[ref].createdAt = now
                   /\ ~Connected(o.store[ref])
                   /\ o.state # None
                   /\ Len(o.state[1]) = 2
                   /\ <<Head(o.state[1])>> = c.uid
                   /\ Tail(o.state[1]) = o.out[1]

\* An owner without accounts asks for a URL while another owner holds one,
\* and gets a placeholder of their own under a new id.
C14_Witness ==
    \E c \in AuthUrlCalls :
        /\ c.arg = None /\ OwnerDocs(store, c.uid) = {}
        /\ DOMAIN store # {}
        /\ AuthUrl(c).out = Some(c.fresh)
        /\ <<c.uid, c.fresh>> \in DOMAIN AuthUrl(c).store
        /\ Cardinality(DOMAIN AuthUrl(c).store) = Cardinality(DOMAIN store) + 1

\* The account ids of the records of uid in store st.
OwnIds(st, uid) == {r[2] : r \in OwnerDocs(st, uid)}

\* C15: get_auth_url with no account_id for an owner who has an account
\* returns the account_id of one of the owner's records and writes nothing,
\* so the owner's records and all their fields are unchanged; repeated calls
\* in sequence never give an owner a second record.
C15_AuthUrlReusesAccount ==
    \A c \in AuthUrlCalls :
        c.arg = None
            => /\ OwnerDocs(store, c.uid) # {}
                    => /\ AuthUrl(c).result = "ok"
                       /\ AuthUrl(c).out # None
                       /\ AuthUrl(c).out[1] \in OwnIds(store, c.uid)
                       /\ AuthUrl(c).store = store
                       /\ Written(store, AuthUrl(c)) = {}
               /\ \A fresh \in AccountIds, t \in now..MaxTime :
                    LET first == AuthUrl(c)
                        second == get_auth_url(first.store, first.issued, t,
                                               c.uid, None, fresh)
                    IN  /\ second.store = first.store
                        /\ second.out = first.out
                        /\ OwnerDocs(store, c.uid) = {}
                             => Cardinality(OwnerDocs(second.store, c.uid)) = 1

\* An owner with two records, one of them connected, asks for a URL and gets
\* the id of the first, nothing being written.
C15_Witness ==
    \E c \in AuthUrlCalls :
        /\ c.arg = None
        /\ Cardinality(OwnerDocs(store, c.uid)) = 2
        /\ \E r \in OwnerDocs(store, c.uid) : Connected(store[r])
        /\ AuthUrl(c).out # None
        /\ AuthUrl(c).out[1] \in OwnIds(store, c.uid)
        /\ AuthUrl(c).store = store

\* The record is a placeholder: createdAt and nothing else.
Placeholder(doc) == DOMAIN doc = {"createdAt"}

\* C16: after a placeholder exists for (owner, id), a handle_callback with
\* state "owner:id" for which the provider returns an access token and a
\* refresh token and the profile an e-mail address returns that account_id
\* with no error and leaves the record with that refresh_token, that
\* access_token, emailAddress the address and name the part of the address
\* before "@".
C16_CallbackConnectsPlaceholder ==
    \A state \in PairStates, resp \in Successes :
        /\ RefOf(state) \in DOMAIN store
        /\ Placeholder(store[RefOf(state)])
        /\ resp.hasRefresh /\ resp.email # None
        => LET o == Callback(store, issued, now, state, resp)
               doc == o.store[RefOf(state)]
           IN  /\ o.result = "ok"
               /\ ~o.raised
               /\ o.out = Some(Tail(state))
               /\ Written(store, o) = {RefOf(state)}
               /\ HoldsCallbackValues(doc, issued + 1, now, resp)
               /\ doc.emailAddress = resp.email
               /\ doc.name = resp.email[1].local
               /\ doc.createdAt = store[RefOf(state)].createdAt

\* A placeholder has been connected by a callback: the record holds its
\* createdAt, the tokens, the profile's address and its local part as name.
C16_Witness ==
    \E r \in DOMAIN store :
        /\ DOMAIN store[r] = {"createdAt", "refresh_token", "access_token",
                              "expiry", "emailAddress", "name"}
        /\ store[r].emailAddress # None
        /\ store[r].name = store[r].emailAddress[1].local
        /\ store[r].access_token.id = store[r].refresh_token

\* C17: handle_callback fails with a malformed-state error, without calling
\* the provider and without writing the store, for every state that is not
\* one owner_id and one account_id separated by a single ':': a state with
\* no ':' and a state with more than one ':'.
C17_MalformedStateRejected ==
    \A state \in StateStrings, resp \in Responses :
        Len(state) # 2
            => LET o == Callback(store, issued, now, state, resp)
               IN  /\ o.result = "invalid state"
                   /\ o.out = None
                   /\ o.exchangeCalls = 0
                   /\ o.issued = issued
                   /\ o.store = store

\* C18: when the code exchange returns no refresh_token, handle_callback
\* falls back to the refresh_token stored on the record and succeeds with it;
\* it fails with a no-refresh-token error only when the record has none
\* either.
C18_FallsBackToStoredRefreshToken ==
    \A state \in PairStates, resp \in Successes :
        ~resp.hasRefresh
            => LET old == DocData(store, RefOf(state))
                   o == Callback(store, issued, now, state, resp)
               IN  /\ Connected(old)
                        => /\ o.result = "ok"
                           /\ o.out = Some(Tail(state))
                           /\ o.store[RefOf(state)].refresh_token
                                = old.refresh_token
                   /\ ~Connected(old)
                        => /\ o.result = "no refresh_token"
                           /\ o.store = store

-----------------------------------------------------------------------------
(* C19, C20: failures of the lifecycle operations. *)

\* The outcome failed without a credential after one refresh attempt and left
\* every record as it was.
RejectedOnce(o) ==
    /\ o.result # "ok"
    /\ o.creds = None
    /\ o.refreshCalls = 1
    /\ o.store = store

\* C19: when the record's token needs a refresh (its stored expiry has
\* passed) and the provider rejects the refresh token, get_service and
\* get_credentials fail without returning a credential and without a second
\* refresh attempt, and the record still exists with every field unchanged.
C19_RejectedRefreshFails ==
    \A c \in LiveCalls :
        /\ OnConnected(c) /\ HasToken(Record(c))
        /\ ExpiryPassed(Record(c), now)
        /\ ~c.accept
        => /\ RejectedOnce(Service(c))
           /\ RejectedOnce(Credentials(c))

\* The outcomes of every call of the four lifecycle operations on the
\* present store.
LifecycleOutcomes ==
    {Service(c) : c \in LiveCalls} \cup {Credentials(c) : c \in LiveCalls}
    \cup {Disconnect(c) : c \in DisconnectCalls}
    \cup {Callback(store, issued, now, state, resp) :
            state \in StateStrings, resp \in Responses}

\* C20 as stated: no failure leaves a lifecycle operation as an exception:
\* get_service, get_credentials, handle_callback and disconnect_account each
\* return an error value instead of raising.
C20_NoFailureRaises ==
    \A o \in LifecycleOutcomes : ~o.raised

\* The store with the access_token taken out of the record at ref: a
\* connected record whose credentials are not valid, so that the handlers
\* take the refresh branch.
WithoutAccessToken(st, ref) ==
    [r \in DOMAIN st |->
        IF r = ref
        THEN [f \in DOMAIN st[r] \ {"access_token"} |-> st[r][f]]
        ELSE st[r]]

\* The call on a record that needs a refresh which the provider rejects
\* raises the provider's error after one refresh call.
RaisesRefreshError(o) ==
    o.raised /\ o.result = "refresh error" /\ o.refreshCalls = 1

\* C20 amended: handle_callback and disconnect_account return an error value
\* for every failure; get_credentials returns no credential, without
\* raising, for a missing record and for a record without refresh_token,
\* where get_service raises; a rejected refresh raises from both.
C20_FailuresReturnedOrRaised ==
    /\ \A c \in DisconnectCalls :
        /\ ~Disconnect(c).raised
        /\ Disconnect(c).ref = None => Disconnect(c).result = "not found"
    /\ \A state \in StateStrings, resp \in Responses :
        LET o == Callback(store, issued, now, state, resp)
        IN  /\ ~o.raised
            /\ Len(state) > 1 /\ ~resp.exchanged
                => o.result = "error" /\ o.out = None
    /\ \A c \in LiveCalls :
        /\ ~OnConnected(c)
            => /\ ~Credentials(c).raised
               /\ Credentials(c).result = "not connected"
               /\ Credentials(c).creds = None
               /\ Service(c).raised
               /\ Service(c).result = "not connected"
        /\ OnConnected(c) /\ ~c.accept
            => LET st == WithoutAccessToken(store, Resolved(c).ref[1])
               IN  /\ RaisesRefreshError(
                        get_service(st, issued, now, c.uid, c.account_id,
                                    c.accept))
                   /\ RaisesRefreshError(
                        get_credentials(st, issued, now, c.uid,
                                        Some(c.account_id), c.accept))

\* With a placeholder and a connected record in the store: a call on a
\* missing account, a call on the placeholder, a denied disconnect and a
\* failed exchange each fail, get_service alone by raising.
C20_Witness ==
    \E c \in LiveCalls, p \in LiveCalls, d \in DisconnectCalls :
        /\ ~OnRecord(c)
        /\ Service(c).raised /\ ~Credentials(c).raised
        /\ OnRecord(p) /\ ~Connected(Record(p))
        /\ Service(p).raised /\ ~Credentials(p).raised
        /\ Disconnect(d).result = "permission denied"
        /\ ~Disconnect(d).raised
        /\ \E r \in DOMAIN store : Connected(store[r])
        /\ \E state \in PairStates :
            Callback(store, issued, now, state, FailedExchange).result
                = "error"

-----------------------------------------------------------------------------
(* C21: require_permission. *)

\* The token of the request verifies and names a user.
Authenticated(req) ==
    req.auth # None /\ req.auth[1].verifies /\ req.auth[1].user_id # None

\* The user of the request holds the key, or the key needs no permission.
Permitted(key, req) ==
    key = "self_profile_access" \/ key \in set_permissions(req.permissions)

\* C21: a handler wrapped by require_permission(key) runs only when the
\* request carries an Authorization header, the token verifies and the user
\* holds the key (or the key is 'self_profile_access'); a missing header or
\* an invalid token is answered 401 and a missing permission 403, the
\* handler not being invoked.
C21_PermissionGate ==
    \A key \in RouteKeys, req \in Requests :
        LET a == Wrapped(key, store, issued, req,
                         MessagesHandler(store, issued, now, req))
        IN  /\ a.invoked => Authenticated(req) /\ Permitted(key, req)
            /\ req.auth = None => a.status = "401" /\ ~a.invoked
            /\ req.auth # None /\ ~req.auth[1].verifies
                => a.status = "401" /\ ~a.invoked
            /\ Authenticated(req) /\ ~Permitted(key, req)
                => a.status = "403" /\ ~a.invoked

-----------------------------------------------------------------------------
(* C22..C24: the refresh made by get_service and get_credentials, on       *)
(* records whose credentials are not valid (SpecStore).                    *)

\* The call resolves a connected record whose credentials the handlers find
\* not valid: no access_token is stored.
NeedsRefresh(c) == OnConnected(c) /\ ~HasToken(Record(c))

\* get_service called again, after outcome o of call c, the provider
\* accepting a refresh or not.
ServiceAfter(o, c, accept) ==
    get_service(o.store, o.issued, now, c.uid, c.account_id, accept)

WroteTokenOnly(o) ==
    o.refreshCalls = 1 /\ o.result = "ok"
        => LET ref == o.ref[1]
           IN  /\ Written(store, o) = {ref}
               /\ DOMAIN o.store = DOMAIN store
               /\ DOMAIN o.store[ref]
                    = DOMAIN store[ref] \cup {"access_token", "expiry"}
               /\ \A f \in DOMAIN store[ref] \ {"access_token", "expiry"} :
                    o.store[ref][f] = store[ref][f]
               /\ \A f \in {"refresh_token", "createdAt", "emailAddress",
                            "name"} \cap DOMAIN o.store[ref] :
                    f \in DOMAIN store[ref]
               /\ Some(o.store[ref].access_token) = o.creds[1].token
               /\ \A r \in DOMAIN store \ {ref} : o.store[r] = store[r]

\* C23: the write that get_service and get_credentials make after a refresh
\* changes only access_token and expiry of the resolved record:
\* refresh_token, createdAt, emailAddress and name of that record, and all
\* other records, are unchanged.
C23_RefreshWritesTokenOnly ==
    \A c \in LiveCalls :
        /\ WroteTokenOnly(Service(c))
        /\ WroteTokenOnly(Credentials(c))
        /\ NeedsRefresh(c) /\ c.accept
            => Service(c).refreshCalls = 1 /\ Service(c).result = "ok"

\* A refresh has been written to one of two records: it holds a token of
\* the refresh with its expiry, and its refresh_token, createdAt,
\* emailAddress and name are those of the record as it was first.
C23_Witness ==
    \E r \in DOMAIN store, q \in DOMAIN store :
        /\ q # r
        /\ q[2] # r[2]
        /\ store[q] = TokenlessDoc
        /\ DOMAIN store[r] = DOMAIN TokenlessDoc \cup {"access_token", "expiry"}
        /\ store[r].expiry.fmt = "iso"
        /\ store[r].access_token.id > 0
        /\ \A f \in DOMAIN TokenlessDoc : store[r][f] = TokenlessDoc[f]

\* Call c is a get_service that refreshed, wrote the record at ref and
\* returned its credential.
RefreshedAndWrote(c, ref) ==
    /\ c.op = "get_service" /\ c.pc = "done" /\ c.result = "ok"
    /\ c.at # None /\ c.ref = Some(ref)

\* The record holds the access_token and the expiry of credentials creds.
HoldsPair(doc, creds) ==
    /\ {"access_token", "expiry"} \subseteq DOMAIN doc
    /\ Some(doc.access_token) = creds.token
    /\ doc.expiry = IsoOrNull(creds.expiry)

\* The credential is one the provider issued: a token and the expiry of
\* that token.
IssuedPair(creds) ==
    /\ creds.token # None
    /\ creds.expiry = Some(creds.token[1].exp)

\* Two finished get_service calls that both refreshed the record at ref made
\* a refresh each and returned a credential each, and the record, while it
\* exists, holds the token and expiry of one refresh that was written to it,
\* and its refresh_token.
RefreshRaceSettled ==
    \A p \in Procs, q \in Procs, ref \in Owners \X AccountIds :
        (p # q /\ RefreshedAndWrote(calls[p], ref)
               /\ RefreshedAndWrote(calls[q], ref))
            => /\ IssuedPair(calls[p].creds[1])
               /\ IssuedPair(calls[q].creds[1])
               /\ calls[p].creds[1].token[1].id # calls[q].creds[1].token[1].id
               /\ issued >= 2
               /\ ref \in DOMAIN store
                    => /\ \E w \in Procs :
                            /\ RefreshedAndWrote(calls[w], ref)
                            /\ HoldsPair(store[ref], calls[w].creds[1])
                       /\ Some(store[ref].refresh_token)
                            = calls[p].creds[1].refresh_token

\* The write of a refresh leaves the record with the token and expiry of the
\* call that writes, whatever another call wrote before, and with its other
\* fields as they were.
LastWriteWins ==
    \A p \in Procs :
        /\ calls[p].op = "get_service" /\ calls[p].pc = "update"
        /\ calls'[p].pc = "done" /\ calls'[p].result = "ok"
        => LET ref == calls[p].ref[1]
           IN  /\ ref \in DOMAIN store /\ ref \in DOMAIN store'
               /\ HoldsPair(store'[ref], calls[p].creds[1])
               /\ \A f \in DOMAIN store[ref] \ {"access_token", "expiry"} :
                    f \in DOMAIN store'[ref] /\ store'[ref][f] = store[ref][f]

-----------------------------------------------------------------------------
(* C25: concurrent get_auth_url calls (SpecRace). *)

\* Call c is a get_auth_url() that found no account and wrote a placeholder.
Created(c) ==
    c.op = "get_auth_url" /\ c.pc = "done" /\ c.at # None

\* Two finished get_auth_url() calls of one owner that both created a
\* placeholder created distinct records, each of which, while it exists,
\* holds the createdAt of its own call and nothing else.
TwoPlaceholders ==
    \A p \in Procs, q \in Procs :
        (p # q /\ Created(calls[p]) /\ Created(calls[q])
               /\ calls[p].uid = calls[q].uid)
            => /\ calls[p].ref # calls[q].ref
               /\ calls[p].out # calls[q].out
               /\ calls[p].ref[1] \in DOMAIN store
                    => store[calls[p].ref[1]] = [createdAt |-> calls[p].at[1]]

\* The placeholder write of a call adds the record of that call and leaves
\* every other record as it was.
EnsureWritesOwn ==
    \A p \in Procs :
        /\ calls[p].op = "get_auth_url" /\ calls[p].pc = "ensure"
        /\ calls'[p].pc = "done"
        => /\ DOMAIN store' = DOMAIN store \cup {calls'[p].ref[1]}
           /\ \A r \in DOMAIN store \ {calls'[p].ref[1]} :
                store'[r] = store[r]

\* C25: two concurrent get_auth_url calls with no account_id for the same
\* owner who has no account can both pass the existing-account check and
\* each create a placeholder, leaving the owner with two distinct pending
\* records; each placeholder holds only its own createdAt and neither write
\* alters the other record.
C25_RacingAuthUrlsCreateTwo ==
    []TwoPlaceholders /\ [][EnsureWritesOwn]_vars

\* Both calls passed the check before either wrote, and the owner, who had
\* no account, holds two placeholders created at different times.
C25_Witness ==
    \E p \in Procs, q \in Procs :
        /\ p # q
        /\ Created(calls[p]) /\ Created(calls[q])
        /\ calls[p].uid = calls[q].uid
        /\ OwnerDocs(store, calls[p].uid)
             = {calls[p].ref[1], calls[q].ref[1]}
        /\ Cardinality(OwnerDocs(store, calls[p].uid)) = 2
        /\ store[calls[p].ref[1]] = [createdAt |-> 0]
        /\ store[calls[q].ref[1]] = [createdAt |-> 1]

-----------------------------------------------------------------------------
(* C26, C27: what handle_callback writes. *)

\* C26: a record comes into existence only as a placeholder made by
\* get_auth_url: handle_callback completes an existing record and never
\* creates one, so for a state whose (owner_id, account_id) has no record it
\* adds no record, and the store holds no record without createdAt.
C26_CallbackNeverCreates ==
    /\ \A r \in DOMAIN store : "createdAt" \in DOMAIN store[r]
    /\ \A state \in PairStates, resp \in Responses :
        RefOf(state) \notin DOMAIN store
            => DOMAIN Callback(store, issued, now, state, resp).store
                 = DOMAIN store

\* C27: a handle_callback that ends in an error (malformed state, failed
\* code exchange, no refresh token, failed profile fetch) has written
\* nothing: every record, the targeted placeholder included, is as before
\* the call, and the result is (no account_id, error message).
C27_FailedCallbackWritesNothing ==
    \A state \in StateStrings, resp \in Responses :
        LET o == Callback(store, issued, now, state, resp)
        IN  /\ o.result # "ok"
                => /\ o.store = store
                   /\ Written(store, o) = {}
                   /\ o.out = None
                   /\ ~o.raised
                   /\ o.result \in {"invalid state", "error",
                                    "no refresh_token"}
            /\ Len(state) < 2 => o.result = "invalid state"
            /\ Len(state) >= 2 /\ ~resp.exchanged => o.result = "error"
            /\ Len(state) >= 2 /\ resp.exchanged /\ ~resp.hasRefresh
                => o.result = "no refresh_token"
            /\ Len(state) >= 2 /\ resp.exchanged /\ resp.hasRefresh
                               /\ ~resp.profiled
                => o.result = "error"

\* A placeholder is targeted by a callback whose exchange fails, by one
\* whose exchange returns no refresh token and by one whose profile request
\* fails, and a state without ':' is refused: the store stays as it is.
C27_Witness ==
    \E state \in PairStates, bad \in StateStrings :
        \E noRefresh \in Responses, noProfile \in Responses :
            /\ RefOf(state) \in DOMAIN store
            /\ Placeholder(store[RefOf(state)])
            /\ Len(bad) < 2
            /\ noRefresh.exchanged /\ ~noRefresh.hasRefresh
            /\ noProfile.exchanged /\ noProfile.hasRefresh
            /\ ~noProfile.profiled
            /\ \A resp \in {FailedExchange, noRefresh, noProfile} :
                /\ Callback(store, issued, now, state, resp).result # "ok"
                /\ Callback(store, issued, now, state, resp).store = store
            /\ Callback(store, issued, now, bad, noProfile).result
                 = "invalid state"

-----------------------------------------------------------------------------
(* C28: disconnect_account racing with a refreshing get_service (SpecRace). *)

\* Call c is a get_service whose write after the refresh found no document.
WriteFoundNothing(c) ==
    /\ c.op = "get_service" /\ c.pc = "done"
    /\ c.result = "not found" /\ c.raised

\* Call c is a disconnect_account that deleted the record at ref.
Deleted(c, ref) ==
    /\ c.op = "disconnect_account" /\ c.pc = "done"
    /\ c.result = "ok" /\ c.ref = Some(ref)

\* Once the write of a get_service found its record deleted and the
\* disconnect_account that deleted it has returned, the record is absent,
\* unless a later get_auth_url created a record of that id; the get_service
\* call raised and returned no service.
AbsentAfterBoth ==
    \A p \in Procs, q \in Procs :
        (/\ WriteFoundNothing(calls[p])
         /\ calls[p].ref # None
         /\ Deleted(calls[q], calls[p].ref[1])
         /\ \A w \in Procs :
                ~(Created(calls[w]) /\ calls[w].ref = calls[p].ref))
        => /\ calls[p].ref[1] \notin DOMAIN store
           /\ calls[p].creds = None

\* The write of a get_service whose record is gone changes no record and
\* creates none: the call raises.
WriteNeverCreates ==
    \A p \in Procs :
        (/\ calls[p].op = "get_service" /\ calls[p].pc = "update"
         /\ calls'[p].pc = "done"
         /\ calls[p].ref[1] \notin DOMAIN store)
        => /\ store' = store
           /\ WriteFoundNothing(calls'[p])

\* C28: if disconnect_account deletes a record between get_service's read
\* of it and get_service's write after the refresh, that write does not
\* recreate the record: after both operations finish the record is absent
\* from the store.
C28_DeletedRecordStaysDeleted ==
    []AbsentAfterBoth /\ [][WriteNeverCreates]_vars

\* A get_service read a record and refreshed, a disconnect_account deleted
\* the record and returned, and the write of the get_service then found no
\* document: the record is absent.
C28_Witness ==
    \E p \in Procs, q \in Procs :
        /\ p # q
        /\ WriteFoundNothing(calls[p])
        /\ calls[p].ref # None
        /\ Deleted(calls[q], calls[p].ref[1])
        /\ calls[p].ref[1] \notin DOMAIN store
        /\ issued >= 1

-----------------------------------------------------------------------------
(* C29: the routes that return messages or send mail. *)

\* What the three routes answer to a request in the current state.
ContentRoutes(req) ==
    {GmailMessages_get(store, issued, now, req),
     GmailMessagesFull_get(store, issued, now, req),
     GmailSend_post(store, issued, now, req)}

\* C29: every route that returns an account's messages or sends mail reaches
\* GmailService only after require_permission('email_access') has accepted
\* the request: no request without a valid token and that permission obtains
\* message content, for any account_id.
C29_ContentBehindPermission ==
    \A req \in Requests : \A a \in ContentRoutes(req) :
        /\ a.content
            => Authenticated(req) /\ Permitted("email_access", req)
        /\ ~(Authenticated(req) /\ Permitted("email_access", req))
            => a.store = store /\ a.issued = issued

-----------------------------------------------------------------------------
(* C30: the state string from get_auth_url to handle_callback. *)

\* Identifiers that contain one ':' themselves.
ColonOwners == {u \o v : u \in Owners, v \in Owners}
ColonAccountIds == {a \o b : a \in AccountIds, b \in AccountIds}

\* The get_auth_url calls of any owner for any account_id, with or without
\* ':' in either, and those without account_id.
RoundTripCalls ==
    {c \in [uid : Owners \cup ColonOwners,
            arg : {None} \cup {Some(a) : a \in AccountIds \cup ColonAccountIds},
            fresh : AccountIds] :
        c.arg = None /\ _get_existing_account_id(store, c.uid) = None
            => c.fresh \in FreshIds}

\* The provider's answers with which a first connection succeeds.
Grants == {resp \in Successes : resp.hasRefresh}

\* The callback of the provider for the state that outcome u of get_auth_url
\* built.
CallbackOf(u, resp) ==
    Callback(u.store, u.issued, now, u.state[1], resp)

\* Outcome o of handle_callback wrote the record that outcome u of
\* get_auth_url was issued for, and no other.
WroteRecordOf(o, u) ==
    /\ o.result = "ok"
    /\ o.owner = u.owner
    /\ o.out = u.out
    /\ o.ref = u.ref
    /\ DOMAIN o.store = DOMAIN u.store
    /\ Connected(o.store[u.ref[1]])
    /\ \A r \in DOMAIN u.store \ {u.ref[1]} : o.store[r] = u.store[r]

\* C30: the state string round-trips: for every owner_id and account_id, the
\* state that get_auth_url builds as "<owner_id>:<account_id>" is parsed by
\* handle_callback back into the same (owner_id, account_id), so that the
\* callback writes the very record the URL was issued for, also when
\* owner_id or account_id itself contains ':'.
C30_StateRoundTrips ==
    \A c \in RoundTripCalls, resp \in Grants :
        WroteRecordOf(CallbackOf(AuthUrl(c), resp), AuthUrl(c))

====
